---- MODULE Spec2Model ----
(***************************************************************************)
(* Rewards service: append-only ledger, SNAP-like eligibility policy       *)
(* engine, Stripe webhook reconciler and the /earn, /spend, /redeem        *)
(* request handlers.                                                       *)
(*                                                                         *)
(* Representation choices                                                  *)
(*  - Money is a Decimal with two fractional digits; it is represented as  *)
(*    an integer number of cents.  The gateway reports integer cents, and  *)
(*    Decimal(cents) / 100 is then the same number of cents.               *)
(*  - None and the empty string are both falsy wherever the code tests     *)
(*    them; both are written "" (strings) or << >> (product names).        *)
(*  - A product name is a sequence of one-character strings so that        *)
(*    lower() and the substring test `pattern in name` are computed.       *)
(*  - A service instance is one OS process.  The handlers are `async def`  *)
(*    without an await inside, so one process runs one handler at a time;  *)
(*    different processes interleave at their database commits.            *)
(***************************************************************************)
EXTENDS Integers, Sequences, FiniteSets, TLC

\* ------------------------------------------------------------------------
\* Bounds
\* ------------------------------------------------------------------------
MaxAmount == 1
MaxEntries == 3
MaxIntents == 2
MaxItems == 2

\* The service processes and the accounts that requests can name
Instances == {1, 2}
UserIds == {1, 2}

VARIABLES
    ledger,            \* table `transactions`, in commit order
    users,             \* table `users`: the accounts that exist
    stripe_accounts,   \* table `stripe_accounts`: users owning a payment account
    intents,           \* payment intents created at the gateway, in creation order
    processed_events,  \* per process: the module-level dict of webhooks.py
    category_cache,    \* per process: the classifier's identifier -> category cache
    pc,                \* per process: position of the handler being executed
    loc,               \* per process: the locals of the handler being executed
    resp               \* the response most recently returned to a caller

vars == <<ledger, users, stripe_accounts, intents, processed_events,
          category_cache, pc, loc, resp>>

\* ------------------------------------------------------------------------
\* policy_engine/categories.py
\* ------------------------------------------------------------------------
ALLOWED_CATEGORIES ==
    {"groceries", "food", "fresh_produce", "meat", "dairy", "bakery",
     "frozen_food", "canned_goods", "beverages_non_alcoholic", "snacks",
     "cereal", "pasta", "rice", "bread", "seafood", "pharmacy",
     "prescription", "over_the_counter", "vitamins", "health_supplements",
     "medical_supplies", "baby_formula", "baby_food"}

DISALLOWED_CATEGORIES ==
    {"alcohol", "beer", "wine", "liquor", "tobacco", "cigarettes", "cigars",
     "vaping", "smoking_products", "hot_food", "prepared_food", "deli_hot",
     "hot_deli", "restaurant", "fast_food", "non_food", "household",
     "cleaning_supplies", "paper_products", "pet_food", "cosmetics",
     "toiletries_non_essential", "clothing", "electronics", "appliances"}

\* The dict keeps insertion order: alcohol, tobacco, hot_food; each entry is
\* <<category, patterns>> and each pattern a sequence of characters.
UPC_PATTERNS ==
    << <<"alcohol",
         << <<"b","e","e","r">>, <<"w","i","n","e">>,
            <<"l","i","q","u","o","r">>, <<"s","p","i","r","i","t","s">>,
            <<"a","l","c","o","h","o","l">> >> >>,
       <<"tobacco",
         << <<"c","i","g","a","r","e","t","t","e">>, <<"c","i","g","a","r">>,
            <<"t","o","b","a","c","c","o">>,
            <<"s","m","o","k","i","n","g">> >> >>,
       <<"hot_food",
         << <<"h","o","t">>, <<"p","r","e","p","a","r","e","d">>,
            <<"d","e","l","i","_","h","o","t">>,
            <<"r","e","a","d","y","_","t","o","_","e","a","t">> >> >> >>

\* ------------------------------------------------------------------------
\* policy_engine/upc_classifier.py
\* ------------------------------------------------------------------------
UpperCase == <<"A","B","C","D","E","F","G","H","I","J","K","L","M",
               "N","O","P","Q","R","S","T","U","V","W","X","Y","Z">>
LowerCase == <<"a","b","c","d","e","f","g","h","i","j","k","l","m",
               "n","o","p","q","r","s","t","u","v","w","x","y","z">>

\* str.lower() on one character
LowerChar(c) ==
    IF \E k \in 1..26 : UpperCase[k] = c
    THEN LowerCase[CHOOSE k \in 1..26 : UpperCase[k] = c]
    ELSE c

\* str.lower()
Lower(s) == [k \in 1..Len(s) |-> LowerChar(s[k])]

\* `pattern in text` on strings
Contains(pattern, text) ==
    \E k \in 1..(Len(text) - Len(pattern) + 1) :
        SubSeq(text, k, k + Len(pattern) - 1) = pattern

\* Variant of FirstHit that returns the last category, in dict order, one of
\* whose patterns occurs
LastHit(patterns, hits) ==
    IF hits = {} THEN ""
    ELSE patterns[CHOOSE c \in hits : \A d \in hits : c >= d][1]

\* The first category, in dict order, one of whose patterns occurs in the
\* lowercased name; "" when no pattern occurs.
FirstHit(patterns, hits) ==
    IF hits = {} THEN ""
    ELSE patterns[CHOOSE c \in hits : \A d \in hits : c <= d][1]

PatternHits(patterns, product_lower) ==
    {c \in 1..Len(patterns) :
        \E p \in 1..Len(patterns[c][2]) :
            Contains(patterns[c][2][p], product_lower)}

MatchPattern(product_lower) ==
    FirstHit(UPC_PATTERNS, PatternHits(UPC_PATTERNS, product_lower))

\* Variant of Classify that consults the cache before the declared category
ClassifyCacheFirst(cache, identifier, matched, category, universe) ==
    IF identifier # "" /\ cache[identifier] # ""
    THEN [category |-> cache[identifier], cache |-> cache]
    ELSE IF category # "" /\ category \in universe
    THEN [category |-> category, cache |-> cache]
    ELSE IF matched # ""
    THEN [category |-> matched,
          cache |-> IF identifier # ""
                    THEN [cache EXCEPT ![identifier] = matched]
                    ELSE cache]
    ELSE [category |-> "unknown", cache |-> cache]

\* UPCClassifier.classify_item: the returned category and the cache after
\* the call.  A cache is a function from the identifiers to a category, ""
\* for an identifier that is not in the dict.
\* The body of classify_item, given `identifier = upc or sku` and the
\* category the name's patterns give ("" for none or for no name)
Classify(cache, identifier, matched, category, universe) ==
    IF category # "" /\ category \in universe
    THEN [category |-> category, cache |-> cache]
    ELSE IF identifier # "" /\ cache[identifier] # ""
    THEN [category |-> cache[identifier], cache |-> cache]
    ELSE IF matched # ""
    THEN [category |-> matched,
          cache |-> IF identifier # ""
                    THEN [cache EXCEPT ![identifier] = matched]
                    ELSE cache]
    ELSE [category |-> "unknown", cache |-> cache]

classify_item(cache, upc, sku, product_name, category) ==
    Classify(cache,
             IF upc # "" THEN upc ELSE sku,
             IF product_name # << >> THEN MatchPattern(Lower(product_name)) ELSE "",
             category,
             ALLOWED_CATEGORIES \cup DISALLOWED_CATEGORIES)

\* Variant of is_eligible that admits every category outside the deny-set
is_eligible_unless_denied(category) ==
    IF category \in DISALLOWED_CATEGORIES THEN FALSE ELSE TRUE

\* UPCClassifier.is_eligible
is_eligible(category) ==
    IF category \in ALLOWED_CATEGORIES THEN TRUE
    ELSE IF category \in DISALLOWED_CATEGORIES THEN FALSE
    ELSE FALSE

\* ------------------------------------------------------------------------
\* policy_engine/snap_policy_engine.py
\* ------------------------------------------------------------------------
\* Item.__init__ on one raw item dict: the processed item and the cache
\* after the constructor's classify_item call.
NewItem(item_data, category, cache) ==
    [item |-> [upc |-> item_data.upc, sku |-> item_data.sku,
               category |-> category, price |-> item_data.price,
               quantity |-> item_data.quantity,
               is_eligible |-> is_eligible(category)],
     cache |-> cache]

\* `category or classifier.classify_item(upc, sku, product_name)`
CategoryOr(item_data, cache, classified) ==
    IF item_data.category # ""
    THEN NewItem(item_data, item_data.category, cache)
    ELSE NewItem(item_data, classified.category, classified.cache)

Item(cache, item_data) ==
    CategoryOr(item_data, cache,
               classify_item(cache, item_data.upc, item_data.sku,
                             item_data.product_name, ""))

\* The for loop of check_transaction_eligibility: the items are constructed
\* in input order, each against the cache the previous ones left.
\* The first processed item in front of the ones that follow it
Prepend(item, rest) ==
    [processed_items |-> <<item>> \o rest.processed_items, cache |-> rest.cache]

RECURSIVE ProcessRest(_, _)
ProcessRest(first, items) ==
    Prepend(first.item,
            IF items = << >> THEN [processed_items |-> << >>, cache |-> first.cache]
            ELSE ProcessRest(Item(first.cache, Head(items)), Tail(items)))

ProcessItems(cache, items) ==
    IF items = << >> THEN [processed_items |-> << >>, cache |-> cache]
    ELSE ProcessRest(Item(cache, Head(items)), Tail(items))

\* Variant of the accumulation that assigns instead of adding: the amount
\* of the last eligible item
ApprovedAmountAssigned(processed_items) ==
    IF SelectSeq(processed_items, LAMBDA item : item.is_eligible) = << >> THEN 0
    ELSE processed_items[CHOOSE k \in 1..Len(processed_items) :
                            /\ processed_items[k].is_eligible
                            /\ \A j \in (k + 1)..Len(processed_items) :
                                   ~processed_items[j].is_eligible].price
         * processed_items[CHOOSE k \in 1..Len(processed_items) :
                              /\ processed_items[k].is_eligible
                              /\ \A j \in (k + 1)..Len(processed_items) :
                                     ~processed_items[j].is_eligible].quantity

\* approved_amount += item.price * item.quantity for the eligible items
RECURSIVE ApprovedAmount(_)
ApprovedAmount(processed_items) ==
    IF processed_items = << >> THEN 0
    ELSE (IF Head(processed_items).is_eligible
          THEN Head(processed_items).price * Head(processed_items).quantity
          ELSE 0) + ApprovedAmount(Tail(processed_items))

\* denied_items
DeniedItems(processed_items) ==
    SelectSeq(processed_items, LAMBDA item : ~item.is_eligible)

\* Variant of the decision rule that denies as soon as one item is denied
DecideWithoutPartial(n_denied, n_processed) ==
    IF n_denied = 0 THEN "approve" ELSE "deny"

\* The decision rule of check_transaction_eligibility
Decide(n_denied, n_processed) ==
    IF n_denied = 0 THEN "approve"
    ELSE IF n_denied = n_processed THEN "deny"
    ELSE "partial"

\* PolicyEngine.check_transaction_eligibility
\* The returned tuple, with the classifier's cache after the loop
EligibilityResult(processed_items, cache) ==
    [decision |-> Decide(Len(DeniedItems(processed_items)), Len(processed_items)),
     processed_items |-> processed_items,
     approved_amount |-> ApprovedAmount(processed_items),
     cache |-> cache]

AfterLoop(run) == EligibilityResult(run.processed_items, run.cache)

check_transaction_eligibility(cache, items) == AfterLoop(ProcessItems(cache, items))

\* ------------------------------------------------------------------------
\* ledger/transactions.py
\* ------------------------------------------------------------------------
RECURSIVE SumAmounts(_)
SumAmounts(rows) ==
    IF rows = << >> THEN 0 ELSE Head(rows).amount + SumAmounts(Tail(rows))

\* SELECT sum(amount) WHERE user_id = :user_id; << >> is SQL NULL, the sum
\* over no rows.
QuerySum(db, user_id) ==
    LET rows == SelectSeq(db, LAMBDA t : t.user_id = user_id)
    IN  IF rows = << >> THEN << >> ELSE <<SumAmounts(rows)>>

\* Variant of calculate_balance_from_ledger whose query has no user filter
calculate_balance_all_rows(db, user_id) ==
    IF db = << >> THEN 0 ELSE SumAmounts(db)

\* calculate_balance_from_ledger: Decimal(result or 0)
calculate_balance_from_ledger(db, user_id) ==
    LET result == QuerySum(db, user_id)
    IN  IF result = << >> \/ result[1] = 0 THEN 0 ELSE result[1]

\* get_user_balance
get_user_balance(db, user_id) == calculate_balance_from_ledger(db, user_id)

\* get_transaction_history: the user's rows, newest first, then LIMIT and
\* OFFSET.  Rows are kept in commit order and created_at grows with it.
get_transaction_history(db, user_id, limit, offset) ==
    LET rows == SelectSeq(db, LAMBDA t : t.user_id = user_id)
        newest_first == [k \in 1..Len(rows) |-> rows[Len(rows) + 1 - k]]
        last == IF offset + limit < Len(rows) THEN offset + limit ELSE Len(rows)
    IN  SubSeq(newest_first, offset + 1, last)

\* Variant of create_transaction that stores the new row in front of the
\* older ones
create_transaction_in_front(db, user_table, user_id, amount, reason, stripe_ref, category, metadata) ==
    IF reason \notin {"earn", "spend", "redeem"}
    THEN [raised |-> "InvalidReason", db |-> db]
    ELSE IF amount = 0
    THEN [raised |-> "ZeroAmount", db |-> db]
    ELSE IF user_id \notin user_table
    THEN [raised |-> "IntegrityError", db |-> db]
    ELSE [raised |-> "",
          db |-> <<[user_id |-> user_id, amount |-> amount,
                    reason |-> reason, stripe_ref |-> stripe_ref,
                    category |-> category, metadata |-> metadata]>> \o db]

\* Variant of create_transaction without the zero-amount validation
create_transaction_any_amount(db, user_table, user_id, amount, reason, stripe_ref, category, metadata) ==
    IF reason \notin {"earn", "spend", "redeem"}
    THEN [raised |-> "InvalidReason", db |-> db]
    ELSE IF user_id \notin user_table
    THEN [raised |-> "IntegrityError", db |-> db]
    ELSE [raised |-> "",
          db |-> Append(db, [user_id |-> user_id, amount |-> amount,
                             reason |-> reason, stripe_ref |-> stripe_ref,
                             category |-> category, metadata |-> metadata])]

\* create_transaction: the exception raised ("" for none) and the table
\* after the call.  InvalidReason and ZeroAmount are the two ValueErrors,
\* told apart by their message.  transaction_id is the row's position; the foreign key
\* transactions.user_id -> users.user_id is checked by the commit.
create_transaction(db, user_table, user_id, amount, reason, stripe_ref, category, metadata) ==
    IF reason \notin {"earn", "spend", "redeem"}
    THEN [raised |-> "InvalidReason", db |-> db]
    ELSE IF amount = 0
    THEN [raised |-> "ZeroAmount", db |-> db]
    ELSE IF user_id \notin user_table
    THEN [raised |-> "IntegrityError", db |-> db]
    ELSE [raised |-> "",
          db |-> Append(db, [user_id |-> user_id, amount |-> amount,
                             reason |-> reason, stripe_ref |-> stripe_ref,
                             category |-> category, metadata |-> metadata])]

\* ------------------------------------------------------------------------
\* Requests and events the environment can send
\* ------------------------------------------------------------------------
\* TransactionCreate.amount and the `amount` parameter of /spend
ApiAmounts == 0..MaxAmount

\* TransactionCreate.reason
ApiReasons == {"earn", "redeem"}

NoRef == <<"none", 0>>

RawItem(upc, name, category, price) ==
    [upc |-> upc, sku |-> "", product_name |-> name, category |-> category,
     price |-> price, quantity |-> 1]

\* Raw item dicts of a /spend body
ItemPool ==
    {RawItem("", << >>, "dairy", 1),
     RawItem("", << >>, "alcohol", 1)}

RECURSIVE SeqsUpTo(_, _)
SeqsUpTo(S, n) ==
    IF n = 0 THEN {<< >>}
    ELSE LET shorter == SeqsUpTo(S, n - 1)
         IN  shorter \cup {Append(q, x) : q \in shorter, x \in S}

Baskets == SeqsUpTo(ItemPool, MaxItems)

\* The payment_intent.succeeded event the gateway emits for the k-th payment
\* intent; its metadata carries the user_id authorize_transaction put there.
IntentEvent(k) ==
    [id |-> k, type |-> "payment_intent.succeeded",
     object |-> [id |-> <<"pi", k>>, amount |-> intents[k].amount,
                 user_id |-> intents[k].user_id, destination |-> 0]]

\* Events that do not stem from a payment intent of this service: a transfer
\* to user 1's payment account and a failed payment.
StaticEvents ==
    {[id |-> 11, type |-> "transfer.created",
      object |-> [id |-> <<"tr", 1>>, amount |-> 1, user_id |-> 0,
                  destination |-> 1]],
     [id |-> 12, type |-> "payment_intent.payment_failed",
      object |-> [id |-> <<"pi_ext", 1>>, amount |-> 1, user_id |-> 0,
                  destination |-> 0]]}

\* Events whose handler finds no account: a transfer to a payment account
\* that no user owns, and a settled payment whose metadata names no user.
UnresolvedEvents ==
    {[id |-> 13, type |-> "transfer.created",
      object |-> [id |-> <<"tr", 2>>, amount |-> 1, user_id |-> 0,
                  destination |-> 2]],
     [id |-> 14, type |-> "payment_intent.succeeded",
      object |-> [id |-> <<"pi_ext", 2>>, amount |-> 1, user_id |-> 0,
                  destination |-> 0]]}

Events == StaticEvents \cup {IntentEvent(k) : k \in 1..Len(intents)}

Signatures == {"valid", "invalid", "missing"}

Identifiers == {"upc1", "upc2", "sku1"}

EmptyCache == [x \in Identifiers |-> ""]

\* A handler's locals; the fields a handler does not use keep these values.
NoLocals ==
    [user |-> 0, amount |-> 0, pi |-> 0, event |-> 0]

\* A response: the endpoint, the HTTP status, the outcome, and the fields of
\* the body the outcome carries (0 or << >> where it carries none).
Response(op, http, status, user, balance, event) ==
    [op |-> op, http |-> http, status |-> status, user |-> user,
     balance |-> balance, event |-> event, transactions |-> << >>]

NoResponse == Response("none", 0, "", 0, 0, 0)

\* `resp` is the log of an observer of the responses.  While it holds this
\* value no observer is attached and responses are not logged; no action
\* reads resp otherwise, so the rest of the state evolves the same.
Unobserved == Response("unobserved", 0, "", 0, 0, 0)

Init ==
    /\ ledger = << >>
    /\ users = {}
    /\ stripe_accounts = {}
    /\ intents = << >>
    /\ processed_events = [i \in Instances |-> {}]
    /\ category_cache = [i \in Instances |-> EmptyCache]
    /\ pc = [i \in Instances |-> "idle"]
    /\ loc = [i \in Instances |-> NoLocals]
    /\ resp = Unobserved

\* get_user_from_db: the user row is created on first reference
get_user_from_db(user_table, user_id) == user_table \cup {user_id}

\* The handler of process i returns: the response goes to the caller and the
\* process is idle again.
Return(i, response) ==
    /\ resp' = IF resp = Unobserved THEN resp ELSE response
    /\ loc' = [loc EXCEPT ![i] = NoLocals]
    /\ pc' = [pc EXCEPT ![i] = "idle"]

\* The handler of process i goes on to its next step with locals l.
Goto(i, label, l) ==
    /\ pc' = [pc EXCEPT ![i] = label]
    /\ loc' = [loc EXCEPT ![i] = l]
    /\ UNCHANGED resp

\* ------------------------------------------------------------------------
\* api/routes.py: GET /balance, GET /transactions, POST /earn
\* (log_api_request writes the api_logs table, which nothing reads)
\* ------------------------------------------------------------------------
get_balance(i, user) ==
    /\ pc[i] = "idle"
    /\ users' = get_user_from_db(users, user)
    /\ Return(i, Response("balance", 200, "ok", user,
                          get_user_balance(ledger, user), 0))
    /\ UNCHANGED <<ledger, stripe_accounts, intents, processed_events,
                   category_cache>>

get_transactions(i, user) ==
    /\ pc[i] = "idle"
    /\ users' = get_user_from_db(users, user)
    /\ Return(i, [Response("transactions", 200, "ok", user, 0, 0) EXCEPT
                     !.transactions = get_transaction_history(ledger, user, 100, 0)])
    /\ UNCHANGED <<ledger, stripe_accounts, intents, processed_events,
                   category_cache>>

\* Variant of earn_rewards that skips the two checks of the request body
earn_rewards_unvalidated(i, user, amount, reason) ==
    /\ pc[i] = "idle"
    /\ Len(ledger) < MaxEntries
    /\ users' = get_user_from_db(users, user)
    /\ ledger' = create_transaction(ledger, get_user_from_db(users, user), user,
                                    amount, "earn", NoRef, "", "").db
    /\ Return(i, Response("earn", 200, "ok", 0, 0, 0))
    /\ UNCHANGED <<stripe_accounts, intents, processed_events, category_cache>>

earn_rewards(i, user, amount, reason) ==
    /\ pc[i] = "idle"
    /\ LET user_table == get_user_from_db(users, user)
           txn == create_transaction(ledger, user_table, user, amount, "earn",
                                     NoRef, "", "")
       IN  IF reason # "earn" \/ amount <= 0
           THEN /\ Return(i, Response("earn", 400, "InvalidInput", 0, 0, 0))
                /\ UNCHANGED <<ledger, users>>
           ELSE /\ Len(ledger) < MaxEntries
                /\ users' = user_table
                /\ ledger' = txn.db
                /\ Return(i, Response("earn", 200, "ok", 0, 0, 0))
    /\ UNCHANGED <<stripe_accounts, intents, processed_events, category_cache>>

\* ------------------------------------------------------------------------
\* api/routes.py: POST /spend, in its two ledger steps
\* ------------------------------------------------------------------------
\* Variant of authorize_transaction that reports a refused authorization
\* as authorized
authorize_transaction_refusal_ignored(gateway, user_id, amount, accepts) ==
    IF accepts
    THEN [authorized |-> TRUE, payment_intent_id |-> Len(gateway) + 1,
          gateway |-> Append(gateway, [user_id |-> user_id, amount |-> amount])]
    ELSE [authorized |-> TRUE, payment_intent_id |-> 0, gateway |-> gateway]

\* stripe_integration/connect.py authorize_transaction: <<authorized,
\* payment_intent_id>> and the gateway's payment intents afterwards.  The
\* gateway creates the intent, or raises StripeError and (False, None) is
\* returned.
authorize_transaction(gateway, user_id, amount, accepts) ==
    IF accepts
    THEN [authorized |-> TRUE, payment_intent_id |-> Len(gateway) + 1,
          gateway |-> Append(gateway, [user_id |-> user_id, amount |-> amount])]
    ELSE [authorized |-> FALSE, payment_intent_id |-> 0, gateway |-> gateway]

\* What the observer logs of a /spend or /redeem handler's step: the
\* process, the request's user and amount, and, as far as the handler got,
\* the balance it read, the policy decision and approved amount it logged,
\* the amount it sent to the gateway, the gateway's answer and the payment
\* intent, with the HTTP status and outcome if the step ends the request.
HandlerLog(op, i, user, amount) ==
    [op |-> op, process |-> i, http |-> 0, status |-> "", user |-> user,
     amount |-> amount, balance |-> 0, decision |-> "", approved_amount |-> 0,
     authorized_amount |-> 0, gateway |-> "", payment_intent_id |-> 0]

\* The handler of process i goes on to its next step with locals l; the
\* observer logs the step.
GotoLogged(i, label, l, log) ==
    /\ pc' = [pc EXCEPT ![i] = label]
    /\ loc' = [loc EXCEPT ![i] = l]
    /\ resp' = IF resp = Unobserved THEN resp ELSE log

\* Variant of InsufficientBalance that lets every amount pass
NeverInsufficient(balance, amount) == FALSE

\* `if balance < amount` of /spend and /redeem
InsufficientBalance(balance, amount) == balance < amount

\* Variant of PolicyRejects that lets a deny decision pass
PolicyRejectsPartialOnly(policy, amount) ==
    IF policy.decision = "partial" /\ policy.approved_amount < amount
    THEN "PartiallyIneligible"
    ELSE ""

\* The two policy checks of /spend: the outcome the request fails with, ""
\* if it goes on
PolicyRejects(policy, amount) ==
    IF policy.decision = "deny" THEN "AllItemsIneligible"
    ELSE IF policy.decision = "partial" /\ policy.approved_amount < amount
    THEN "PartiallyIneligible"
    ELSE ""

\* Variant of FinalAmount that keeps the requested amount
FinalAmountRequested(policy, amount) == amount

\* `amount = approved_amount` under a partial decision
FinalAmount(policy, amount) ==
    IF policy.decision = "partial" THEN policy.approved_amount ELSE amount

\* Payment-account lookup or creation, the gateway's authorization `auth`
\* of the final amount, and the check of its answer
SpendAuthorize(i, user, final_amount, accepts, auth, log) ==
    /\ stripe_accounts' = stripe_accounts \cup {user}
    /\ Len(auth.gateway) <= MaxIntents
    /\ intents' = auth.gateway
    /\ IF ~auth.authorized
       THEN Return(i, [log EXCEPT !.http = 500,
                                  !.status = "AuthorizationFailed"])
       ELSE GotoLogged(i, "spend_record",
                       [NoLocals EXCEPT !.user = user,
                                        !.amount = final_amount,
                                        !.pi = auth.payment_intent_id],
                       [log EXCEPT !.status = "authorized",
                                   !.payment_intent_id = auth.payment_intent_id])

\* Policy evaluation and what follows it, for a request that passed the
\* balance check; `rejects` is the outcome of the two policy checks
SpendEvaluated(i, user, amount, accepts, policy, rejects, final_amount, log) ==
    /\ category_cache' = [category_cache EXCEPT ![i] = policy.cache]
    /\ IF rejects # ""
       THEN /\ Return(i, [log EXCEPT !.http = 403, !.status = rejects])
            /\ UNCHANGED <<stripe_accounts, intents>>
       ELSE SpendAuthorize(i, user, final_amount, accepts,
                           authorize_transaction(intents, user, final_amount,
                                                 accepts),
                           [log EXCEPT
                              !.authorized_amount = final_amount,
                              !.gateway = IF accepts THEN "accepted"
                                                     ELSE "refused"])

\* The balance check and what follows it, for a request that passed the
\* input validation; `balance` is what get_user_balance returned
SpendChecked(i, user, amount, accepts, policy, balance, log) ==
    /\ users' = get_user_from_db(users, user)
    /\ IF InsufficientBalance(balance, amount)
       THEN /\ Return(i, [log EXCEPT !.http = 400,
                                     !.status = "InsufficientFunds",
                                     !.balance = balance])
            /\ UNCHANGED <<stripe_accounts, category_cache, intents>>
       ELSE SpendEvaluated(i, user, amount, accepts, policy,
                           PolicyRejects(policy, amount),
                           FinalAmount(policy, amount),
                           [log EXCEPT !.balance = balance,
                                       !.decision = policy.decision,
                                       !.approved_amount = policy.approved_amount])

\* Everything before the ledger write: validation, balance check, policy
\* evaluation, payment-account lookup and the gateway's authorization.
\* `accepts` is the gateway's answer if it is asked; `policy` is what
\* check_transaction_eligibility returns for the items.  The ledger is read
\* once, by get_user_balance; the commits that follow in this step write the
\* users, audit and stripe_accounts tables.
SpendWithPolicy(i, user, amount, items, accepts, policy) ==
    /\ pc[i] = "idle"
    /\ IF amount <= 0 \/ items = << >>
       THEN /\ Return(i, [HandlerLog("spend", i, user, amount) EXCEPT
                            !.http = 400, !.status = "InvalidInput"])
            /\ UNCHANGED <<users, stripe_accounts, category_cache, intents>>
       ELSE SpendChecked(i, user, amount, accepts, policy,
                         get_user_balance(ledger, user),
                         HandlerLog("spend", i, user, amount))
    /\ UNCHANGED <<ledger, processed_events>>

spend_rewards(i, user, amount, items, accepts) ==
    SpendWithPolicy(i, user, amount, items, accepts,
                    check_transaction_eligibility(category_cache[i], items))

\* Variant of spend_record that records the spend without the payment
\* intent's identifier
spend_record_without_reference(i) ==
    /\ pc[i] = "spend_record"
    /\ Len(ledger) < MaxEntries
    /\ LET txn == create_transaction(ledger, users, loc[i].user, -loc[i].amount,
                                     "spend", NoRef, "mixed", "merchant")
       IN  ledger' = txn.db
    /\ Return(i, [HandlerLog("spend", i, loc[i].user, loc[i].amount) EXCEPT
                    !.http = 200, !.status = "approved",
                    !.payment_intent_id = loc[i].pi])
    /\ UNCHANGED <<users, stripe_accounts, intents, processed_events, category_cache>>

\* The create_transaction call that records the authorized spend, and the
\* response, which carries the final amount and the payment intent
spend_record(i) ==
    /\ pc[i] = "spend_record"
    /\ Len(ledger) < MaxEntries
    /\ LET txn == create_transaction(ledger, users, loc[i].user, -loc[i].amount,
                                     "spend", <<"pi", loc[i].pi>>, "mixed",
                                     "merchant")
       IN  ledger' = txn.db
    /\ Return(i, [HandlerLog("spend", i, loc[i].user, loc[i].amount) EXCEPT
                    !.http = 200, !.status = "approved",
                    !.payment_intent_id = loc[i].pi])
    /\ UNCHANGED <<users, stripe_accounts, intents, processed_events, category_cache>>

\* ------------------------------------------------------------------------
\* api/routes.py: POST /redeem, in its two database steps
\* ------------------------------------------------------------------------
RedeemChecked(i, user, amount, balance, log) ==
    /\ users' = get_user_from_db(users, user)
    /\ IF InsufficientBalance(balance, amount)
       THEN Return(i, [log EXCEPT !.http = 400, !.status = "InsufficientFunds",
                                  !.balance = balance])
       ELSE GotoLogged(i, "redeem_record",
                       [NoLocals EXCEPT !.user = user, !.amount = amount],
                       [log EXCEPT !.status = "checked", !.balance = balance])

redeem_rewards(i, user, amount, reason) ==
    /\ pc[i] = "idle"
    /\ IF reason # "redeem" \/ amount <= 0
       THEN /\ Return(i, [HandlerLog("redeem", i, user, amount) EXCEPT
                            !.http = 400, !.status = "InvalidInput"])
            /\ UNCHANGED users
       ELSE RedeemChecked(i, user, amount, get_user_balance(ledger, user),
                          HandlerLog("redeem", i, user, amount))
    /\ UNCHANGED <<ledger, stripe_accounts, intents, processed_events, category_cache>>

redeem_record(i) ==
    /\ pc[i] = "redeem_record"
    /\ Len(ledger) < MaxEntries
    /\ LET txn == create_transaction(ledger, users, loc[i].user, -loc[i].amount,
                                     "redeem", NoRef, "", "")
       IN  ledger' = txn.db
    /\ Return(i, [HandlerLog("redeem", i, loc[i].user, loc[i].amount) EXCEPT
                    !.http = 200, !.status = "ok"])
    /\ UNCHANGED <<users, stripe_accounts, intents, processed_events, category_cache>>

\* ------------------------------------------------------------------------
\* stripe_integration/webhooks.py
\* ------------------------------------------------------------------------
\* A metadata user_id that is not the text of a UUID
MalformedUserId == -1

\* Variant of _handle_payment_succeeded that credits the settled amount
handle_payment_succeeded_as_credit(db, user_table, event) ==
    LET payment_intent == event.object
        user_id == payment_intent.user_id
    IN  IF user_id = 0 THEN [raised |-> "", db |-> db]
        ELSE IF user_id = MalformedUserId
        THEN [raised |-> "ValueError", db |-> db]
        ELSE create_transaction(db, user_table, user_id, payment_intent.amount,
                                "spend", payment_intent.id, "",
                                "payment_intent.succeeded")

\* _handle_payment_succeeded: the exception raised and the table afterwards.
\* UUID(user_id) raises ValueError for a malformed identifier.
handle_payment_succeeded(db, user_table, event) ==
    LET payment_intent == event.object
        user_id == payment_intent.user_id
    IN  IF user_id = 0 THEN [raised |-> "", db |-> db]
        ELSE IF user_id = MalformedUserId
        THEN [raised |-> "ValueError", db |-> db]
        ELSE create_transaction(db, user_table, user_id, -payment_intent.amount,
                                "spend", payment_intent.id, "",
                                "payment_intent.succeeded")

\* _handle_transfer_created
handle_transfer_created(db, user_table, accounts, event) ==
    LET transfer == event.object
        stripe_account == {a \in accounts : a = transfer.destination}
    IN  IF stripe_account # {}
        THEN create_transaction(db, user_table,
                                CHOOSE a \in stripe_account : TRUE,
                                transfer.amount, "earn", transfer.id, "",
                                "transfer.created")
        ELSE [raised |-> "", db |-> db]

\* The if/elif chain of handle_stripe_webhook that dispatches on the type
Dispatch(db, user_table, accounts, event) ==
    IF event.type = "payment_intent.succeeded"
    THEN handle_payment_succeeded(db, user_table, event)
    ELSE IF event.type = "transfer.created"
    THEN handle_transfer_created(db, user_table, accounts, event)
    ELSE [raised |-> "", db |-> db]

\* Variant of the idempotency check that never finds the identifier
NeverProcessed(processed, event_id) == FALSE

\* The idempotency check of handle_stripe_webhook
AlreadyProcessed(processed, event_id) == event_id \in processed

\* Variant of SignatureVerifies that accepts every signature header that is
\* present
SignaturePresent(signature) == signature # "missing"

\* The route's check that the signature header is present, and
\* construct_event's verification of it against the secret, which comes
\* before the payload is parsed
SignatureVerifies(signature) == signature = "valid"

\* Variant of webhook_dispatch that records the identifier before it
\* dispatches
webhook_dispatch_recording_first(i, event, signature) ==
    /\ pc[i] = "idle"
    /\ LET out == Dispatch(ledger, users, stripe_accounts, event)
       IN  IF ~SignatureVerifies(signature)
           THEN /\ Return(i, Response("webhook", 400, "BadSignature", 0, 0, 0))
                /\ UNCHANGED <<ledger, processed_events>>
           ELSE IF AlreadyProcessed(processed_events[i], event.id)
           THEN /\ Return(i, Response("webhook", 200, "already_processed", 0, 0,
                                      event.id))
                /\ UNCHANGED <<ledger, processed_events>>
           ELSE IF out.raised # ""
           THEN /\ Return(i, Response("webhook",
                                      IF out.raised = "IntegrityError"
                                      THEN 500 ELSE 400, "error", 0, 0, 0))
                /\ processed_events' =
                      [processed_events EXCEPT ![i] = @ \cup {event.id}]
                /\ UNCHANGED ledger
           ELSE /\ Len(out.db) <= MaxEntries
                /\ ledger' = out.db
                /\ UNCHANGED processed_events
                /\ Goto(i, "webhook_mark", [NoLocals EXCEPT !.event = event.id])
    /\ UNCHANGED <<users, stripe_accounts, intents, category_cache>>

\* POST /webhooks/stripe as far as the dispatched handler's commit: signature
\* header, construct_event, idempotency check, dispatch.
webhook_dispatch(i, event, signature) ==
    /\ pc[i] = "idle"
    /\ LET out == Dispatch(ledger, users, stripe_accounts, event)
       IN  IF ~SignatureVerifies(signature)
           THEN /\ Return(i, Response("webhook", 400, "BadSignature", 0, 0, 0))
                /\ UNCHANGED ledger
           ELSE IF AlreadyProcessed(processed_events[i], event.id)
           THEN /\ Return(i, Response("webhook", 200, "already_processed", 0, 0,
                                      event.id))
                /\ UNCHANGED ledger
           ELSE IF out.raised # ""
           THEN /\ Return(i, Response("webhook",
                                      IF out.raised = "IntegrityError"
                                      THEN 500 ELSE 400, "error", 0, 0, 0))
                /\ UNCHANGED ledger
           ELSE /\ Len(out.db) <= MaxEntries
                /\ ledger' = out.db
                /\ Goto(i, "webhook_mark", [NoLocals EXCEPT !.event = event.id])
    /\ UNCHANGED <<users, stripe_accounts, intents, processed_events, category_cache>>

\* processed_events[event_id] = True, and the success response
webhook_mark(i) ==
    /\ pc[i] = "webhook_mark"
    /\ processed_events' = [processed_events EXCEPT ![i] = @ \cup {loc[i].event}]
    /\ Return(i, Response("webhook", 200, "success", 0, 0, loc[i].event))
    /\ UNCHANGED <<ledger, users, stripe_accounts, intents, category_cache>>

\* A process stops at any point (crash or redeploy) and starts again: its
\* module-level state is initialised anew, the database is kept.
Restart(i) ==
    /\ processed_events' = [processed_events EXCEPT ![i] = {}]
    /\ category_cache' = [category_cache EXCEPT ![i] = EmptyCache]
    /\ pc' = [pc EXCEPT ![i] = "idle"]
    /\ loc' = [loc EXCEPT ![i] = NoLocals]
    /\ UNCHANGED <<ledger, users, stripe_accounts, intents, resp>>

\* ------------------------------------------------------------------------
\* The service: every process serves requests and webhook deliveries
\* ------------------------------------------------------------------------
Next ==
    \E i \in Instances :
        \/ \E u \in UserIds : get_balance(i, u)
        \/ \E u \in UserIds : get_transactions(i, u)
        \/ \E u \in UserIds, a \in ApiAmounts, r \in ApiReasons :
               earn_rewards(i, u, a, r)
        \/ \E u \in UserIds, a \in ApiAmounts, b \in Baskets, ok \in BOOLEAN :
               spend_rewards(i, u, a, b, ok)
        \/ spend_record(i)
        \/ \E u \in UserIds, a \in ApiAmounts, r \in ApiReasons :
               redeem_rewards(i, u, a, r)
        \/ redeem_record(i)
        \/ \E e \in Events, sig \in Signatures : webhook_dispatch(i, e, sig)
        \/ webhook_mark(i)

Spec == Init /\ [][Next]_vars

\* ------------------------------------------------------------------------
\* Properties of the ledger under the whole service
\* ------------------------------------------------------------------------
\* The sum of the amounts of the first k rows that belong to user u
RECURSIVE SumOfEntries(_, _)
SumOfEntries(u, k) ==
    IF k = 0 THEN 0
    ELSE (IF ledger[k].user_id = u THEN ledger[k].amount ELSE 0)
         + SumOfEntries(u, k - 1)

EntriesOf(u) == {k \in 1..Len(ledger) : ledger[k].user_id = u}

\* C1: after any interleaving of requests and webhook deliveries, for every
\* account get_user_balance is exactly the sum of the amounts of the
\* account's ledger entries, and 0 for an account without entries.
C1_BalanceIsSumOfEntries ==
    \A u \in UserIds :
        /\ get_user_balance(ledger, u) = SumOfEntries(u, Len(ledger))
        /\ EntriesOf(u) = {} => get_user_balance(ledger, u) = 0

\* An account holds a credit and a debit while the other account has an
\* entry too, and the first account's balance is the sum of its two entries.
C1_Witness ==
    \E u \in UserIds, v \in UserIds :
        /\ u # v
        /\ EntriesOf(v) # {}
        /\ \E j \in EntriesOf(u), k \in EntriesOf(u) :
               /\ ledger[j].amount > 0
               /\ ledger[k].amount < 0
               /\ EntriesOf(u) = {j, k}
               /\ get_user_balance(ledger, u)
                      = ledger[j].amount + ledger[k].amount

\* The debits POST /spend appended to account u
SpendDebits(u) ==
    {k \in EntriesOf(u) : ledger[k].reason = "spend" /\ ledger[k].category = "mixed"}

\* The credits of account u
Credits(u) == {k \in EntriesOf(u) : ledger[k].amount > 0}

\* C2: when an account was credited B in total and everything else in its
\* ledger stems from POST /spend requests for the amount B each, exactly one
\* of those requests appended its debit and the balance is not negative.
C2_OneSpendOfWholeBalance ==
    \A u \in UserIds, B \in 1..MaxAmount :
        (/\ Credits(u) # {}
         /\ SumOfEntries(u, Len(ledger)) + B * Cardinality(SpendDebits(u)) = B
         /\ EntriesOf(u) = Credits(u) \cup SpendDebits(u)
         /\ \A k \in SpendDebits(u) : ledger[k].amount = -B)
        => /\ Cardinality(SpendDebits(u)) <= 1
           /\ get_user_balance(ledger, u) >= 0

\* C3: in every reachable state every account's balance is non-negative.
C3_BalanceNeverNegative ==
    \A u \in UserIds : get_user_balance(ledger, u) >= 0

\* C8: no step changes or removes a row that is already in the ledger; the
\* ledger only grows at its end.
C8_LedgerAppendOnly ==
    [][/\ Len(ledger') >= Len(ledger)
       /\ \A k \in 1..Len(ledger) : ledger'[k] = ledger[k]]_vars

\* The ledger holds a credit from /earn, a debit from /spend and a debit
\* from a settlement webhook, appended in that order.
C8_Witness ==
    /\ Len(ledger) = 3
    /\ ledger[1].reason = "earn"
    /\ ledger[2].category = "mixed"
    /\ ledger[3].metadata = "payment_intent.succeeded"

\* ------------------------------------------------------------------------
\* The reconciler on its own
\* ------------------------------------------------------------------------
\* The service after POST /earn credited user 1 and a POST /spend of user 1
\* created the user's payment account and was refused by the gateway.  The
\* deliveries are observed.
InitReconciler ==
    /\ ledger = <<[user_id |-> 1, amount |-> 1, reason |-> "earn",
                   stripe_ref |-> NoRef, category |-> "", metadata |-> ""]>>
    /\ users = {1}
    /\ stripe_accounts = {1}
    /\ intents = << >>
    /\ processed_events = [i \in Instances |-> {}]
    /\ category_cache = [i \in Instances |-> EmptyCache]
    /\ pc = [i \in Instances |-> "idle"]
    /\ loc = [i \in Instances |-> NoLocals]
    /\ resp = NoResponse

ReconcilerEvents == StaticEvents \cup UnresolvedEvents

NextReconciler ==
    \E i \in Instances :
        \/ \E e \in ReconcilerEvents, sig \in Signatures :
               webhook_dispatch(i, e, sig)
        \/ webhook_mark(i)

SpecReconciler == InitReconciler /\ [][NextReconciler]_vars

\* The reconciler with processes that crash or are redeployed
NextCrash ==
    \/ NextReconciler
    \/ \E i \in Instances : Restart(i)

SpecCrash == InitReconciler /\ [][NextCrash]_vars

\* The ledger entries the handlers appended for event e
EventEntries(e) ==
    {k \in 1..Len(ledger) :
        ledger[k].stripe_ref = e.object.id /\ ledger[k].metadata = e.type}

\* Event e is one whose handler appends an entry
HasLedgerEffect(e) ==
    Dispatch(ledger, users, stripe_accounts, e).db # ledger

\* Process i has passed the idempotency check for event e
Handled(i, e) ==
    \/ e.id \in processed_events[i]
    \/ pc[i] = "webhook_mark" /\ loc[i].event = e.id

\* C4: when one process receives all deliveries of an event, one after
\* another, the ledger holds exactly one entry of the event if the event has
\* a ledger effect and none otherwise, however often it is delivered; a
\* delivery of an identifier the process has already processed leaves the
\* ledger unchanged and is answered 200 "already_processed".
C4_SequentialRedeliveryIsNoOp ==
    /\ [](\A e \in ReconcilerEvents, i \in Instances :
             (\A j \in Instances \ {i} : ~Handled(j, e))
             => Cardinality(EventEntries(e))
                   = IF Handled(i, e) /\ HasLedgerEffect(e) THEN 1 ELSE 0)
    /\ [][\A e \in ReconcilerEvents, i \in Instances :
             (e.id \in processed_events[i] /\ webhook_dispatch(i, e, "valid"))
             => /\ ledger' = ledger
                /\ resp'.http = 200
                /\ resp'.status = "already_processed"
                /\ resp'.event = e.id]_vars

\* Process 1 alone processed the transfer, the transfer was delivered to it
\* again, and the ledger holds one entry of it.
C4_Witness ==
    \E e \in ReconcilerEvents :
        /\ e.type = "transfer.created"
        /\ e.id \in processed_events[1]
        /\ ~Handled(2, e)
        /\ resp = Response("webhook", 200, "already_processed", 0, 0, e.id)
        /\ Cardinality(EventEntries(e)) = 1

\* C5: a delivery of an identifier the process has already processed returns
\* the outcome the first delivery of that identifier returned, which is
\* status "success" with the event identifier.
C5_RepeatedDeliverySameOutcome ==
    [][\A e \in ReconcilerEvents, i \in Instances :
          (e.id \in processed_events[i] /\ webhook_dispatch(i, e, "valid"))
          => resp' = Response("webhook", 200, "success", 0, 0, e.id)]_vars

\* C6: when two processes have both passed the idempotency check for the
\* same event before either recorded it, the ledger holds at most one entry
\* of that event.
C6_ConcurrentIngestOneEntry ==
    \A e \in ReconcilerEvents, i \in Instances, j \in Instances :
        (/\ i # j
         /\ pc[i] = "webhook_mark" /\ loc[i].event = e.id
         /\ pc[j] = "webhook_mark" /\ loc[j].event = e.id)
        => Cardinality(EventEntries(e)) <= 1

\* C7: with restarts, crashes between the commit and the recording, and a
\* second instance, re-delivering an event whose entry is already in the
\* ledger, while no process is still handling an earlier delivery of it,
\* appends no second entry.
C7_RedeliveryAfterRestartNoSecondEntry ==
    [][\A e \in ReconcilerEvents, i \in Instances :
          (/\ EventEntries(e) # {}
           /\ \A j \in Instances :
                  ~(pc[j] = "webhook_mark" /\ loc[j].event = e.id)
           /\ webhook_dispatch(i, e, "valid"))
          => ledger' = ledger]_vars

\* ------------------------------------------------------------------------
\* The ledger functions called directly, as tests/test_ledger.py calls them
\* ------------------------------------------------------------------------
\* The user rows exist (the tests' fixture).
InitLedger ==
    /\ ledger = << >>
    /\ users = UserIds
    /\ stripe_accounts = {}
    /\ intents = << >>
    /\ processed_events = [i \in Instances |-> {}]
    /\ category_cache = [i \in Instances |-> EmptyCache]
    /\ pc = [i \in Instances |-> "idle"]
    /\ loc = [i \in Instances |-> NoLocals]
    /\ resp = NoResponse

CallAmounts == (-MaxAmount)..MaxAmount

CallReasons == {"earn", "redeem", "bonus", ""}

\* User 1 has a row, user 3 has none
CallUserIds == {1, 3}

RecognizedReasons == {"earn", "spend", "redeem"}

\* A call of create_transaction; the caller sees the exception or none,
\* and the observer logs the call with it.
call_create_transaction(user_id, amount, reason) ==
    /\ LET txn == create_transaction(ledger, users, user_id, amount, reason,
                                     NoRef, "", "")
       IN  /\ Len(txn.db) <= MaxEntries
           /\ ledger' = txn.db
           /\ resp' = [op |-> "create_transaction", amount |-> amount,
                       reason |-> reason, raised |-> txn.raised]
    /\ UNCHANGED <<users, stripe_accounts, intents, processed_events,
                   category_cache, pc, loc>>

\* A call of get_user_balance
call_get_user_balance(user_id) ==
    /\ resp' = Response("get_user_balance", 0, "", user_id,
                        get_user_balance(ledger, user_id), 0)
    /\ UNCHANGED <<ledger, users, stripe_accounts, intents, processed_events,
                   category_cache, pc, loc>>

NextLedger ==
    \/ \E u \in CallUserIds, a \in CallAmounts, r \in CallReasons :
           call_create_transaction(u, a, r)
    \/ \E u \in CallUserIds : call_get_user_balance(u)

SpecLedger == InitLedger /\ [][NextLedger]_vars

\* C9: a create_transaction call whose reason is not earn, spend or redeem
\* raises InvalidReason, one with a recognized reason and amount zero raises
\* ZeroAmount, and both leave the ledger unchanged; every entry in the
\* ledger has a non-zero amount and a recognized reason.
C9_InvalidCallsAppendNothing ==
    /\ [](\A k \in 1..Len(ledger) :
             ledger[k].amount # 0 /\ ledger[k].reason \in RecognizedReasons)
    /\ [][resp'.op = "create_transaction"
             => /\ resp'.reason \notin RecognizedReasons
                   => ledger' = ledger /\ resp'.raised = "InvalidReason"
                /\ (resp'.reason \in RecognizedReasons /\ resp'.amount = 0)
                   => ledger' = ledger /\ resp'.raised = "ZeroAmount"]_vars

\* A call with amount zero was refused while the ledger holds entries.
C9_Witness ==
    /\ Len(ledger) >= 1
    /\ resp.op = "create_transaction"
    /\ resp.reason \in RecognizedReasons
    /\ resp.amount = 0
    /\ resp.raised = "ZeroAmount"

\* ------------------------------------------------------------------------
\* The policy engine called directly, as tests/test_policy.py calls it
\* ------------------------------------------------------------------------
InitPolicy ==
    /\ ledger = << >>
    /\ users = {}
    /\ stripe_accounts = {}
    /\ intents = << >>
    /\ processed_events = [i \in Instances |-> {}]
    /\ category_cache = [i \in Instances |-> EmptyCache]
    /\ pc = [i \in Instances |-> "idle"]
    /\ loc = [i \in Instances |-> NoLocals]
    /\ resp = NoResponse

\* Items with a declared category inside and outside the category sets, and
\* items that are classified by their name and share an identifier.
PolicyItemPool ==
    {RawItem("", << >>, "dairy", 1),
     RawItem("", << >>, "alcohol", 1),
     RawItem("", << >>, "gift_card", 1),
     [RawItem("", << >>, "bread", 1) EXCEPT !.quantity = 2],
     RawItem("upc1", <<"H","o","t"," ","C","o","f","f","e","e">>, "", 2),
     RawItem("upc1", <<"M","i","l","k">>, "", 1)}

PolicyBaskets == SeqsUpTo(PolicyItemPool, MaxItems)

\* A call of check_transaction_eligibility in process i; the caller sees the
\* returned dict.
call_check_transaction_eligibility(i, items) ==
    /\ LET result == check_transaction_eligibility(category_cache[i], items)
       IN  /\ category_cache' = [category_cache EXCEPT ![i] = result.cache]
           /\ resp' = [op |-> "check_transaction_eligibility",
                       items |-> items,
                       decision |-> result.decision,
                       processed_items |-> result.processed_items,
                       approved_amount |-> result.approved_amount]
    /\ UNCHANGED <<ledger, users, stripe_accounts, intents, processed_events,
                   pc, loc>>

NextPolicy ==
    \E i \in Instances, items \in PolicyBaskets :
        call_check_transaction_eligibility(i, items)

SpecPolicy == InitPolicy /\ [][NextPolicy]_vars

\* C10: for a non-empty item list the decision is approve iff no returned
\* item is ineligible, deny iff every returned item is ineligible, and
\* partial iff some are eligible and some are not; for the empty list the
\* decision is approve and the approved amount is zero.
C10_DecisionByIneligibleItems ==
    resp.op = "check_transaction_eligibility"
    => LET n == Len(resp.processed_items)
           ineligible == {k \in 1..n : ~resp.processed_items[k].is_eligible}
       IN  /\ n = Len(resp.items)
           /\ resp.decision \in {"approve", "deny", "partial"}
           /\ n > 0 => /\ resp.decision = "approve" <=> ineligible = {}
                       /\ resp.decision = "deny" <=> ineligible = 1..n
                       /\ resp.decision = "partial"
                             <=> (ineligible # {} /\ ineligible # 1..n)
           /\ n = 0 => /\ resp.decision = "approve"
                       /\ resp.approved_amount = 0

\* A basket of one eligible and one ineligible item was decided.
C10_Witness ==
    /\ resp.op = "check_transaction_eligibility"
    /\ Len(resp.items) = 2
    /\ resp.decision = "partial"

\* The sum of price x quantity over the first k returned items that are
\* flagged eligible
RECURSIVE EligibleTotal(_, _)
EligibleTotal(breakdown, k) ==
    IF k = 0 THEN 0
    ELSE (IF breakdown[k].is_eligible
          THEN breakdown[k].price * breakdown[k].quantity ELSE 0)
         + EligibleTotal(breakdown, k - 1)

\* C11: the approved amount returned by check_transaction_eligibility is
\* the sum of price x quantity over exactly the returned items flagged
\* eligible, the returned items carry the prices and quantities of the
\* input items, and a deny decision carries approved amount zero.
C11_ApprovedAmountIsEligibleTotal ==
    resp.op = "check_transaction_eligibility"
    => /\ resp.approved_amount
             = EligibleTotal(resp.processed_items, Len(resp.processed_items))
       /\ Len(resp.processed_items) = Len(resp.items)
       /\ \A k \in 1..Len(resp.items) :
              /\ resp.processed_items[k].price = resp.items[k].price
              /\ resp.processed_items[k].quantity = resp.items[k].quantity
       /\ resp.decision = "deny" => resp.approved_amount = 0

\* Two eligible items, one of them with quantity 2, were approved for the
\* sum of both.
C11_Witness ==
    /\ resp.op = "check_transaction_eligibility"
    /\ Len(resp.processed_items) = 2
    /\ resp.processed_items[1].is_eligible
    /\ resp.processed_items[2].is_eligible
    /\ resp.processed_items[1].quantity = 2
    /\ resp.approved_amount = 3

\* ------------------------------------------------------------------------
\* The classifier of one process, called through check_item_eligibility and
\* check_transaction_eligibility as tests/test_policy.py calls them
\* ------------------------------------------------------------------------
\* No name, names that match one pattern, names that match patterns of two
\* categories (in upper case, and in the other order), and a name that
\* matches none.
ClassifierNames ==
    {<< >>,
     <<"B","e","e","r">>,
     <<"C","i","g","a","r"," ","W","I","N","E">>,
     <<"H","o","t"," ","C","i","g","a","r">>,
     <<"M","i","l","k">>}

ClassifierUpcs == {"", "upc1"}

ClassifierSkus == {"", "sku1"}

ClassifierCategories == {"", "dairy", "alcohol", "gift_card"}

\* The caller sees (is_eligible, category); the observer logs the call, the
\* process and the process's cache before the call with it.
ItemEligibilityReturned(i, upc, sku, product_name, category, classified) ==
    /\ category_cache' = [category_cache EXCEPT ![i] = classified.cache]
    /\ resp' = [op |-> "check_item_eligibility", process |-> i,
                upc |-> upc, sku |-> sku, product_name |-> product_name,
                declared |-> category, cache_before |-> category_cache[i],
                category |-> classified.category,
                is_eligible |-> is_eligible(classified.category)]
    /\ UNCHANGED <<ledger, users, stripe_accounts, intents, processed_events,
                   pc, loc>>

\* A call of check_item_eligibility in process i
call_check_item_eligibility(i, upc, sku, product_name, category) ==
    ItemEligibilityReturned(i, upc, sku, product_name, category,
                            classify_item(category_cache[i], upc, sku,
                                          product_name, category))

OneProcess == {CHOOSE i \in Instances : TRUE}

NextClassifier ==
    \E i \in OneProcess :
        \/ \E upc \in ClassifierUpcs, sku \in ClassifierSkus,
              name \in ClassifierNames, category \in ClassifierCategories :
               call_check_item_eligibility(i, upc, sku, name, category)
        \/ \E items \in PolicyBaskets :
               call_check_transaction_eligibility(i, items)

SpecClassifier == InitPolicy /\ [][NextClassifier]_vars

\* Category values: both sets, `unknown`, and values outside both sets
CategoryValues ==
    ALLOWED_CATEGORIES \cup DISALLOWED_CATEGORIES
        \cup {"unknown", "gift_card", "mixed", ""}

\* The sum of price x quantity over the first k returned items whose
\* category is in the allow-set
RECURSIVE AllowedTotal(_, _)
AllowedTotal(breakdown, k) ==
    IF k = 0 THEN 0
    ELSE (IF breakdown[k].category \in ALLOWED_CATEGORIES
          THEN breakdown[k].price * breakdown[k].quantity ELSE 0)
         + AllowedTotal(breakdown, k - 1)

\* C12: is_eligible is true exactly for the categories of the allow-set,
\* and false for the deny-set, `unknown` and every other value; an item is
\* flagged eligible only if its resolved category is in the allow-set, and
\* only such items add to the approved amount.
C12_DefaultDeny ==
    /\ \A c \in CategoryValues : is_eligible(c) <=> c \in ALLOWED_CATEGORIES
    /\ resp.op = "check_item_eligibility"
       => (resp.is_eligible <=> resp.category \in ALLOWED_CATEGORIES)
    /\ resp.op = "check_transaction_eligibility"
       => /\ \A k \in 1..Len(resp.processed_items) :
                 resp.processed_items[k].is_eligible
                    <=> resp.processed_items[k].category \in ALLOWED_CATEGORIES
          /\ resp.approved_amount
                = AllowedTotal(resp.processed_items, Len(resp.processed_items))

\* A basket of an item that resolves to `unknown` and an item with a
\* declared category outside both sets was decided: neither is eligible and
\* nothing is approved.
C12_Witness ==
    /\ resp.op = "check_transaction_eligibility"
    /\ Len(resp.processed_items) = 2
    /\ resp.processed_items[1].category = "unknown"
    /\ resp.processed_items[2].category = "gift_card"
    /\ ~resp.processed_items[1].is_eligible
    /\ ~resp.processed_items[2].is_eligible
    /\ resp.approved_amount = 0

\* `upc or sku` of a logged check_item_eligibility call
IdentifierOf(call) == IF call.upc # "" THEN call.upc ELSE call.sku

\* Some keyword pattern of the category occurs in the lowercased name
NameMatches(product_name, category) ==
    /\ product_name # << >>
    /\ \E c \in 1..Len(UPC_PATTERNS) :
          /\ UPC_PATTERNS[c][1] = category
          /\ \E p \in 1..Len(UPC_PATTERNS[c][2]) :
                Contains(UPC_PATTERNS[c][2][p], Lower(product_name))

\* The category of the name in the priority order alcohol, tobacco,
\* hot-food; "" when the name matches none
ByPriority(product_name) ==
    IF NameMatches(product_name, "alcohol") THEN "alcohol"
    ELSE IF NameMatches(product_name, "tobacco") THEN "tobacco"
    ELSE IF NameMatches(product_name, "hot_food") THEN "hot_food"
    ELSE ""

\* C13: classify_item resolves in this order, first match wins: a declared
\* category of the universe is returned unchanged whatever the cache and
\* the name; otherwise the cached classification of the identifier;
\* otherwise the first category, in the order alcohol, tobacco, hot-food,
\* one of whose patterns occurs in the lowercased name, which is cached
\* against the identifier if there is one; otherwise `unknown`, and nothing
\* is cached.
C13_ResolutionOrder ==
    resp.op = "check_item_eligibility"
    => IF resp.declared \in ALLOWED_CATEGORIES \cup DISALLOWED_CATEGORIES
       THEN /\ resp.category = resp.declared
            /\ category_cache[resp.process] = resp.cache_before
       ELSE IF IdentifierOf(resp) # ""
               /\ resp.cache_before[IdentifierOf(resp)] # ""
       THEN /\ resp.category = resp.cache_before[IdentifierOf(resp)]
            /\ category_cache[resp.process] = resp.cache_before
       ELSE IF ByPriority(resp.product_name) # ""
       THEN /\ resp.category = ByPriority(resp.product_name)
            /\ category_cache[resp.process]
                 = IF IdentifierOf(resp) # ""
                   THEN [resp.cache_before EXCEPT
                           ![IdentifierOf(resp)] = ByPriority(resp.product_name)]
                   ELSE resp.cache_before
       ELSE /\ resp.category = "unknown"
            /\ category_cache[resp.process] = resp.cache_before

\* An undeclared item whose upper-case name holds a tobacco keyword before
\* an alcohol keyword, with a upc and a sku, neither cached: it is
\* classified alcohol and cached against the upc only.
C13_Witness ==
    /\ resp.op = "check_item_eligibility"
    /\ resp.declared = ""
    /\ resp.upc = "upc1" /\ resp.sku = "sku1"
    /\ resp.cache_before["upc1"] = "" /\ resp.cache_before["sku1"] = ""
    /\ NameMatches(resp.product_name, "tobacco")
    /\ resp.category = "alcohol"
    /\ category_cache[resp.process]["upc1"] = "alcohol"
    /\ category_cache[resp.process]["sku1"] = ""

\* The identifier of the call is cached and no declared category of the
\* universe overrides it
CachedIdentifier(call) ==
    /\ call.declared \notin ALLOWED_CATEGORIES \cup DISALLOWED_CATEGORIES
    /\ IdentifierOf(call) # ""
    /\ call.cache_before[IdentifierOf(call)] # ""

\* The category the same input gets from a classifier that has served no
\* call yet
FreshCategory(call) ==
    classify_item(EmptyCache, call.upc, call.sku, call.product_name,
                  call.declared).category

\* C14: after any sequence of earlier calls, a call yields the category a
\* fresh classifier yields for the same input, except that a call whose
\* identifier was cached by an earlier call yields the cached value; the
\* eligibility is that of the fresh classifier in every case, and a call
\* with a declared category of the universe yields it whatever is cached.
C14_Deterministic ==
    resp.op = "check_item_eligibility"
    => /\ ~CachedIdentifier(resp) => resp.category = FreshCategory(resp)
       /\ CachedIdentifier(resp)
            => resp.category = resp.cache_before[IdentifierOf(resp)]
       /\ resp.is_eligible = is_eligible(FreshCategory(resp))
       /\ resp.declared \in ALLOWED_CATEGORIES \cup DISALLOWED_CATEGORIES
            => resp.category = resp.declared

\* Both cases on a cached identifier: an undeclared item named Beer gets
\* the tobacco classification cached for its upc by an earlier call, or an
\* item declared dairy keeps dairy although its upc is cached.
C14_Witness ==
    /\ resp.op = "check_item_eligibility"
    /\ resp.upc = "upc1"
    /\ resp.cache_before["upc1"] = "tobacco"
    /\ resp.product_name = <<"B","e","e","r">>
    /\ \/ resp.declared = "" /\ resp.category = "tobacco"
                             /\ FreshCategory(resp) = "alcohol"
       \/ resp.declared = "dairy" /\ resp.category = "dairy"
                                  /\ resp.is_eligible

\* ------------------------------------------------------------------------
\* POST /spend and POST /redeem with an observer, for an account that holds
\* a balance and an account that holds none
\* ------------------------------------------------------------------------
SpendAmounts == 0..(MaxAmount + 1)

\* Baskets of a /spend body: empty, approved, denied, partial with an
\* approved amount of one and of two, and denied with an item the
\* classifier has to classify and caches
SpendBaskets ==
    {<< >>,
     <<RawItem("", << >>, "dairy", 1)>>,
     <<RawItem("", << >>, "alcohol", 1)>>,
     <<RawItem("", << >>, "dairy", 1), RawItem("", << >>, "alcohol", 1)>>,
     <<[RawItem("", << >>, "bread", 1) EXCEPT !.quantity = 2],
       RawItem("", << >>, "alcohol", 1)>>,
     <<RawItem("upc1", <<"H","o","t"," ","C","o","f","f","e","e">>, "", 2)>>}

InitSpend ==
    /\ ledger = <<[user_id |-> 1, amount |-> MaxAmount + 1, reason |-> "earn",
                   stripe_ref |-> NoRef, category |-> "", metadata |-> ""]>>
    /\ users = {1}
    /\ stripe_accounts = {}
    /\ intents = << >>
    /\ processed_events = [i \in Instances |-> {}]
    /\ category_cache = [i \in Instances |-> EmptyCache]
    /\ pc = [i \in Instances |-> "idle"]
    /\ loc = [i \in Instances |-> NoLocals]
    /\ resp = NoResponse

NextSpend ==
    \E i \in Instances :
        \/ \E user \in UserIds, amount \in SpendAmounts, items \in SpendBaskets,
              accepts \in BOOLEAN :
               spend_rewards(i, user, amount, items, accepts)
        \/ spend_record(i)
        \/ \E user \in UserIds, amount \in SpendAmounts, reason \in ApiReasons :
               redeem_rewards(i, user, amount, reason)
        \/ redeem_record(i)

SpecSpend == InitSpend /\ [][NextSpend]_vars

\* The step is the first step of a /spend or /redeem handler, which the
\* observer logs in resp'
FirstStep(op) == resp'.op = op /\ pc[resp'.process] = "idle"

\* The step's request passed the handler's input validation
Validated == resp'.status # "InvalidInput"

\* C15: a /spend or /redeem request that passes the input validation and
\* whose amount exceeds the account's balance at that time fails with
\* InsufficientFunds (400); the /spend handler has not evaluated the policy
\* then (no decision, no classification cached), and neither handler asks
\* the gateway for an authorization, appends a ledger entry or goes on to
\* its recording step.
C15_InsufficientFunds ==
    [][(/\ FirstStep("spend") \/ FirstStep("redeem")
        /\ Validated
        /\ resp'.amount > get_user_balance(ledger, resp'.user))
       => /\ resp'.status = "InsufficientFunds"
          /\ resp'.http = 400
          /\ resp'.decision = "" /\ resp'.gateway = ""
          /\ category_cache' = category_cache
          /\ intents' = intents
          /\ ledger' = ledger
          /\ pc' = pc]_vars

\* An account that has spent part of its balance asks to spend more than
\* is left and is refused.
C15_Witness ==
    /\ resp.op = "spend"
    /\ resp.status = "InsufficientFunds"
    /\ resp.balance = 1
    /\ resp.amount = 2
    /\ get_user_balance(ledger, resp.user) = 1
    /\ Len(ledger) = 2

\* The step asks the gateway for nothing, appends nothing and ends the
\* request
NothingAuthorizedOrAppended ==
    /\ resp'.gateway = ""
    /\ intents' = intents
    /\ ledger' = ledger
    /\ pc' = pc

\* C16: a /spend request for which the policy engine returns deny fails
\* with AllItemsIneligible (403), whatever balance the handler read: the
\* gateway is not asked for an authorization, no ledger entry is appended
\* and the handler does not go on to its recording step.
C16_DenyIsRejected ==
    [][(FirstStep("spend") /\ resp'.decision = "deny")
       => /\ resp'.status = "AllItemsIneligible"
          /\ resp'.http = 403
          /\ NothingAuthorizedOrAppended]_vars

\* An account whose balance covers the amount twice over asks to spend on a
\* basket the classifier resolves to hot food, and is refused.
C16_Witness ==
    /\ resp.op = "spend"
    /\ resp.status = "AllItemsIneligible"
    /\ resp.decision = "deny"
    /\ resp.amount = 1
    /\ resp.balance = 2
    /\ category_cache[resp.process]["upc1"] = "hot_food"
    /\ Len(ledger) = 1
    /\ intents = << >>

\* The step of process i appends the debit of its authorized spend
RecordsSpend(i) == pc[i] = "spend_record" /\ pc'[i] = "idle"

C18_RefusalAppendsNothing ==
    [][(FirstStep("spend") /\ resp'.gateway = "refused")
       => /\ resp'.status = "AuthorizationFailed"
          /\ resp'.http = 500
          /\ ledger' = ledger
          /\ intents' = intents
          /\ pc' = pc]_vars

\* The gateway refused the authorization of the whole balance of an
\* account that had spent nothing.
C18_Witness ==
    /\ resp.op = "spend"
    /\ resp.status = "AuthorizationFailed"
    /\ resp.gateway = "refused"
    /\ resp.decision = "approve"
    /\ resp.authorized_amount = 2
    /\ Len(ledger) = 1
    /\ intents = << >>

\* The entries POST /spend appended
SpendEntries == {k \in 1..Len(ledger) : ledger[k].reason = "spend"}

\* Entry e carries the identifier of a payment intent of its user and
\* amount
AuthorizedDebit(e) ==
    /\ e.stripe_ref[1] = "pi"
    /\ e.stripe_ref[2] \in 1..Len(intents)
    /\ intents[e.stripe_ref[2]] = [user_id |-> e.user_id, amount |-> -e.amount]

\* C19: the steps of /spend occur in the order balance check, policy
\* evaluation, authorization, append.  The policy is evaluated only for a
\* request whose amount the balance covers; the gateway is asked only
\* then and only under an approve decision or a partial decision whose
\* approved amount covers the request; a payment intent is created only by
\* such a step; a spend entry is appended only by the recording step of a
\* handler whose authorization succeeded, and every spend entry carries the
\* identifier of a payment intent of its user and amount.
C19_StepOrder ==
    /\ [](\A k \in SpendEntries : AuthorizedDebit(ledger[k]))
    /\ [](\A i \in Instances :
              pc[i] = "spend_record" => loc[i].pi \in 1..Len(intents))
    /\ [][/\ (FirstStep("spend") /\ resp'.decision # "")
             => /\ Validated
                /\ resp'.balance = get_user_balance(ledger, resp'.user)
                /\ resp'.amount <= resp'.balance
          /\ (FirstStep("spend") /\ resp'.gateway # "")
             => \/ resp'.decision = "approve"
                \/ /\ resp'.decision = "partial"
                   /\ resp'.approved_amount >= resp'.amount
          /\ intents' # intents
             => /\ FirstStep("spend")
                /\ resp'.gateway = "accepted"
                /\ ledger' = ledger
          /\ ledger' # ledger /\ ledger'[Len(ledger')].reason = "spend"
             => \E i \in Instances :
                   /\ RecordsSpend(i)
                   /\ ledger' = Append(ledger, ledger'[Len(ledger')])
                   /\ ledger'[Len(ledger')].stripe_ref = <<"pi", loc[i].pi>>
                   /\ intents' = intents]_vars

\* Two spends were authorized and the second one was recorded first: its
\* entry carries the second payment intent's identifier.
C19_Witness ==
    /\ Len(ledger) = 2
    /\ Len(intents) = 2
    /\ ledger[2].reason = "spend"
    /\ ledger[2].stripe_ref = <<"pi", 2>>
    /\ AuthorizedDebit(ledger[2])
    /\ resp.status = "approved"
    /\ resp.payment_intent_id = 2
    /\ \E i \in Instances : pc[i] = "spend_record" /\ loc[i].pi = 1

\* C20: a delivery whose signature header is missing or does not verify is
\* answered 400 BadSignature whatever the event and whatever the process
\* has processed: the response carries no event identifier, no ledger entry
\* is appended, no identifier is recorded as processed and the handler does
\* not go on to record one.
C20_BadSignatureRejected ==
    [][\A e \in ReconcilerEvents, i \in Instances,
          sig \in Signatures \ {"valid"} :
          webhook_dispatch(i, e, sig)
          => /\ resp' = Response("webhook", 400, "BadSignature", 0, 0, 0)
             /\ ledger' = ledger
             /\ processed_events' = processed_events
             /\ pc' = pc
             /\ loc' = loc]_vars

\* After a process processed the transfer, a delivery without a verifying
\* signature was rejected: one entry of the transfer, and no other
\* identifier recorded.
C20_Witness ==
    /\ resp = Response("webhook", 400, "BadSignature", 0, 0, 0)
    /\ \E e \in ReconcilerEvents :
          /\ e.type = "transfer.created"
          /\ Cardinality(EventEntries(e)) = 1
          /\ processed_events[1] = {e.id}
          /\ processed_events[2] = {}
          /\ \A i \in Instances : pc[i] = "idle"

\* ------------------------------------------------------------------------
\* POST /webhooks/stripe with payloads that may be malformed
\* ------------------------------------------------------------------------
\* A request body: the JSON of an event, bytes that are not UTF-8, or text
\* that is not JSON
EventPayload(e) == [kind |-> "event", event |-> e]

MalformedPayloads ==
    {[kind |-> k, event |-> CHOOSE e \in StaticEvents : TRUE] :
        k \in {"not_utf8", "not_json"}}

\* stripe.Webhook.construct_event as handle_stripe_webhook calls it and
\* catches what it raises: the body is decoded, the signature is verified
\* over the decoded body, and the body is parsed.  `signature` says whether
\* the header verifies for this body.
construct_event(payload, signature) ==
    IF payload.kind = "not_utf8"
    THEN [raised |-> "ValueError", message |-> "codec can't decode",
          event |-> payload.event]
    ELSE IF signature # "valid"
    THEN [raised |-> "SignatureVerificationError", message |-> "",
          event |-> payload.event]
    ELSE IF payload.kind = "not_json"
    THEN [raised |-> "ValueError", message |-> "Expecting value",
          event |-> payload.event]
    ELSE [raised |-> "", message |-> "", event |-> payload.event]

\* The 400 response of the route: HTTPException(status_code=400, detail),
\* logged with the cause of the rejection, which the caller does not see
Rejection(detail, cause) ==
    [op |-> "webhook", http |-> 400, status |-> "BadSignature", user |-> 0,
     balance |-> 0, event |-> 0, transactions |-> << >>,
     detail |-> detail, cause |-> cause]

\* The except clauses of handle_stripe_webhook and of the route: a
\* ValueError goes to the caller with its own message, a
\* SignatureVerificationError is raised again as ValueError("Invalid
\* webhook signature")
RejectionOf(constructed) ==
    IF constructed.raised = "SignatureVerificationError"
    THEN Rejection("Invalid webhook signature", "bad_signature")
    ELSE Rejection(constructed.message, "bad_payload")

\* handle_stripe_webhook from the result of construct_event on
Ingest(i, constructed) ==
    IF constructed.raised # ""
    THEN /\ pc[i] = "idle"
         /\ Return(i, RejectionOf(constructed))
         /\ UNCHANGED <<ledger, users, stripe_accounts, intents,
                        processed_events, category_cache>>
    ELSE webhook_dispatch(i, constructed.event, "valid")

\* POST /webhooks/stripe
stripe_webhook(i, payload, signature) ==
    IF signature = "missing"
    THEN /\ pc[i] = "idle"
         /\ Return(i, Rejection("Missing Stripe signature header",
                                "missing_header"))
         /\ UNCHANGED <<ledger, users, stripe_accounts, intents,
                        processed_events, category_cache>>
    ELSE Ingest(i, construct_event(payload, signature))

\* Events of the other kinds: a settled payment of user 1, an account
\* update, a type the handler does not know, and settled payments whose
\* metadata names a malformed identifier and an account that does not exist
MoreEvents ==
    {[id |-> 15, type |-> "payment_intent.succeeded",
      object |-> [id |-> <<"pi_ext", 3>>, amount |-> 1, user_id |-> 1,
                  destination |-> 0]],
     [id |-> 16, type |-> "account.updated",
      object |-> [id |-> <<"acct", 1>>, amount |-> 0, user_id |-> 0,
                  destination |-> 0]],
     [id |-> 17, type |-> "charge.refunded",
      object |-> [id |-> <<"ch", 1>>, amount |-> 1, user_id |-> 0,
                  destination |-> 0]],
     [id |-> 18, type |-> "payment_intent.succeeded",
      object |-> [id |-> <<"pi_ext", 4>>, amount |-> 1,
                  user_id |-> MalformedUserId, destination |-> 0]],
     [id |-> 19, type |-> "payment_intent.succeeded",
      object |-> [id |-> <<"pi_ext", 5>>, amount |-> 1, user_id |-> 3,
                  destination |-> 0]]}

IngestEvents == ReconcilerEvents \cup MoreEvents

IngestPayloads ==
    {EventPayload(e) : e \in IngestEvents} \cup MalformedPayloads

NextIngest ==
    \E i \in OneProcess :
        \/ \E payload \in IngestPayloads, sig \in Signatures :
               stripe_webhook(i, payload, sig)
        \/ webhook_mark(i)

SpecIngest == InitReconciler /\ [][NextIngest]_vars

\* The response rejects a delivery whose body or signature header failed
\* construct_event
AuthenticityRejection(r) ==
    /\ r.status = "BadSignature"
    /\ r.cause \in {"bad_payload", "bad_signature"}

\* C21: any two deliveries rejected by the verification, one after the
\* other, get the same response (status code and detail), whether the
\* cause was the body or the signature.
C21_UniformRejection ==
    [][(AuthenticityRejection(resp) /\ AuthenticityRejection(resp'))
       => /\ resp'.http = resp.http
          /\ resp'.detail = resp.detail]_vars

\* The step is the handling of a validly signed delivery of event e that
\* process i has not processed
FirstSeen(i, e) ==
    /\ e.id \notin processed_events[i]
    /\ stripe_webhook(i, EventPayload(e), "valid")

\* The account of the event can be resolved: the metadata of a settled
\* payment names an existing user, the destination of a transfer is a
\* user's payment account
Resolvable(e) ==
    /\ e.type = "payment_intent.succeeded" => e.object.user_id \in users
    /\ e.type = "transfer.created" => e.object.destination \in stripe_accounts

\* The entries the event's type calls for
EntriesByType(e) ==
    IF e.type = "payment_intent.succeeded"
    THEN <<[user_id |-> e.object.user_id, amount |-> -e.object.amount,
            reason |-> "spend", stripe_ref |-> e.object.id, category |-> "",
            metadata |-> e.type]>>
    ELSE IF e.type = "transfer.created"
    THEN <<[user_id |-> e.object.destination, amount |-> e.object.amount,
            reason |-> "earn", stripe_ref |-> e.object.id, category |-> "",
            metadata |-> e.type]>>
    ELSE << >>

\* The step of process i records the identifier of the event it handled
\* and answers success
Marks(i) ==
    /\ pc[i] = "webhook_mark" /\ pc'[i] = "idle"
    /\ processed_events' =
          [processed_events EXCEPT ![i] = @ \cup {loc[i].event}]
    /\ ledger' = ledger
    /\ resp' = Response("webhook", 200, "success", 0, 0, loc[i].event)

\* C22: the handling of a first-seen, validly signed event whose account
\* can be resolved appends exactly the entries of its type: one spend entry
\* of minus the settled amount for the account of the metadata, one earn
\* entry of the transferred amount for the owner of the destination, and
\* none for a failed payment, an account update or an unknown type; the
\* handler then records the event as processed.
C22_EffectByType ==
    [][/\ \A e \in IngestEvents, i \in Instances :
             (FirstSeen(i, e) /\ Resolvable(e))
             => /\ ledger' = ledger \o EntriesByType(e)
                /\ pc'[i] = "webhook_mark"
                /\ loc'[i].event = e.id
                /\ processed_events' = processed_events
       /\ \A i \in Instances :
             (pc[i] = "webhook_mark" /\ pc'[i] = "idle") => Marks(i)]_vars

\* The settled payment of user 1, an account update and an unknown type
\* were processed: one spend entry of minus the settled amount, nothing
\* else.
C22_Witness ==
    /\ {15, 16, 17} \subseteq processed_events[1]
    /\ Len(ledger) = 2
    /\ ledger[2] = [user_id |-> 1, amount |-> -1, reason |-> "spend",
                    stripe_ref |-> <<"pi_ext", 3>>, category |-> "",
                    metadata |-> "payment_intent.succeeded"]
    /\ resp.status = "success"

\* C23: the handling of a first-seen, validly signed event whose account
\* cannot be resolved does not raise: no ledger entry is appended, the
\* request is not answered with an error and the handler goes on to record
\* the event as processed.
C23_UnresolvedIsRecorded ==
    [][\A e \in IngestEvents, i \in Instances :
          (FirstSeen(i, e) /\ ~Resolvable(e))
          => /\ ledger' = ledger
             /\ pc'[i] = "webhook_mark"
             /\ loc'[i].event = e.id]_vars

\* C24: an identifier is recorded as processed, or about to be, only when
\* the entries of its event are in the ledger; a first-seen delivery whose
\* handler raises is answered with an error, leaves the ledger and the
\* processed identifiers as they were and ends the request, so that the
\* next delivery of the identifier is first-seen again and is dispatched
\* again.
C24_RecordedAfterCommit ==
    /\ [](\A e \in IngestEvents, i \in Instances :
             (Handled(i, e) /\ Resolvable(e))
             => Cardinality(EventEntries(e)) = Len(EntriesByType(e)))
    /\ [][\A e \in IngestEvents, i \in Instances :
             (/\ FirstSeen(i, e)
              /\ Dispatch(ledger, users, stripe_accounts, e).raised # "")
             => /\ resp'.status = "error"
                /\ ledger' = ledger
                /\ EventEntries(e) = {}
                /\ processed_events' = processed_events
                /\ pc' = pc]_vars

\* The settled payment of an account that does not exist was delivered
\* and failed; it is not recorded and has no entry, while the settled
\* payment of user 1 is recorded and has its entry.
C24_Witness ==
    /\ resp = Response("webhook", 500, "error", 0, 0, 0)
    /\ processed_events[1] = {15}
    /\ \E e \in IngestEvents : e.id = 15 /\ Cardinality(EventEntries(e)) = 1
    /\ \E e \in IngestEvents : e.id = 19 /\ EventEntries(e) = {}
    /\ pc[1] = "idle"

\* ------------------------------------------------------------------------
\* The history query on rows with their created_at, called directly as
\* tests/test_ledger.py calls it
\* ------------------------------------------------------------------------
\* Values of datetime.utcnow at the resolution of the column
Clock == 1..MaxEntries

\* Variant of Page that applies the limit and ignores the offset
PageWithoutOffset(rows, limit, offset) ==
    SubSeq(rows, 1, IF limit < Len(rows) THEN limit ELSE Len(rows))

\* .limit(limit).offset(offset) on the ordered rows
Page(rows, limit, offset) ==
    SubSeq(rows, offset + 1,
           IF offset + limit < Len(rows) THEN offset + limit ELSE Len(rows))

\* The orders ORDER BY created_at DESC admits: every arrangement of the
\* rows in which created_at does not grow; rows of equal created_at come
\* in an order the query does not fix.
OrdersByCreatedAtDesc(rows) ==
    {[k \in 1..Len(rows) |-> rows[p[k]]] :
        p \in {q \in [1..Len(rows) -> 1..Len(rows)] :
                 /\ \A a, b \in 1..Len(rows) : a # b => q[a] # q[b]
                 /\ \A a, b \in 1..Len(rows) :
                       a < b => rows[q[a]].created_at >= rows[q[b]].created_at}}

\* The results get_transaction_history can return
history_results(db, user_id, limit, offset) ==
    {Page(ordered, limit, offset) :
        ordered \in OrdersByCreatedAtDesc(
                       SelectSeq(db, LAMBDA t : t.user_id = user_id))}

\* create_transaction at time `now` of a clock that does not run backwards;
\* the row gets its identifier and its created_at
call_create_transaction_at(user_id, amount, now) ==
    /\ Len(ledger) < MaxEntries
    /\ \A k \in 1..Len(ledger) : ledger[k].created_at <= now
    /\ LET txn == create_transaction(ledger, users, user_id, amount, "earn",
                                     NoRef, "", "")
       IN  ledger' = Append(ledger,
                            [transaction_id |-> Len(ledger) + 1,
                             created_at |-> now] @@ txn.db[Len(txn.db)])
    /\ resp' = [op |-> "create_transaction", user_id |-> user_id,
                created_at |-> now]
    /\ UNCHANGED <<users, stripe_accounts, intents, processed_events,
                   category_cache, pc, loc>>

\* A call of get_transaction_history; the observer logs the call with the
\* result
call_get_transaction_history(user_id, limit, offset) ==
    /\ \E result \in history_results(ledger, user_id, limit, offset) :
          resp' = [op |-> "get_transaction_history", user_id |-> user_id,
                   limit |-> limit, offset |-> offset, result |-> result]
    /\ UNCHANGED <<ledger, users, stripe_accounts, intents, processed_events,
                   category_cache, pc, loc>>

NextHistory ==
    \/ \E u \in UserIds, a \in 1..MaxAmount, now \in Clock :
           call_create_transaction_at(u, a, now)
    \/ \E u \in UserIds, limit \in 1..MaxEntries, offset \in 0..MaxEntries :
           call_get_transaction_history(u, limit, offset)

SpecHistory == InitLedger /\ [][NextHistory]_vars

\* resp and resp' log two reads of one account with nothing appended in
\* between
TwoReads ==
    /\ resp.op = "get_transaction_history"
    /\ resp'.op = "get_transaction_history"
    /\ resp'.user_id = resp.user_id
    /\ resp'.limit = resp.limit

\* C25: two reads of the same (account, limit, offset) with no append in
\* between return identical sequences, and a page and the page after it
\* have no entry in common.
C25_DeterministicOrder ==
    [][/\ (TwoReads /\ resp'.offset = resp.offset)
          => resp'.result = resp.result
       /\ (TwoReads /\ resp'.offset = resp.offset + resp.limit)
          => \A a \in 1..Len(resp.result), b \in 1..Len(resp'.result) :
                resp.result[a] # resp'.result[b]]_vars

\* The rows of the account were each created at a later time than the one
\* before
AppendedOneAfterAnother(user_id) ==
    \A a, b \in 1..Len(ledger) :
        (a < b /\ ledger[a].user_id = user_id /\ ledger[b].user_id = user_id)
        => ledger[a].created_at < ledger[b].created_at

\* C26: for an account whose entries were appended one after another, each
\* at a later time, get_transaction_history returns only entries of the
\* account, newest first in reverse append order, without the `offset`
\* newest ones and at most `limit` of them.
C26_ReverseAppendOrder ==
    (resp.op = "get_transaction_history" /\ AppendedOneAfterAnother(resp.user_id))
    => LET rows == SelectSeq(ledger, LAMBDA t : t.user_id = resp.user_id)
           n == Len(resp.result)
       IN  /\ resp.result
                = get_transaction_history(ledger, resp.user_id, resp.limit,
                                          resp.offset)
           /\ n <= resp.limit
           /\ n = IF Len(rows) - resp.offset < 0 THEN 0
                  ELSE IF Len(rows) - resp.offset < resp.limit
                  THEN Len(rows) - resp.offset ELSE resp.limit
           /\ \A k \in 1..n :
                 /\ resp.result[k].user_id = resp.user_id
                 /\ resp.result[k] = rows[Len(rows) + 1 - resp.offset - k]

\* Three entries of one account, each later than the one before, read with
\* limit 2 and offset 1: the second and the first.
C26_Witness ==
    /\ resp.op = "get_transaction_history"
    /\ Len(ledger) = 3
    /\ \A k \in 1..3 : ledger[k].user_id = resp.user_id
    /\ AppendedOneAfterAnother(resp.user_id)
    /\ resp.limit = 2 /\ resp.offset = 1
    /\ resp.result = <<ledger[2], ledger[1]>>

\* ------------------------------------------------------------------------
\* POST /earn, /spend and /redeem served by one process, each request
\* complete before the next one starts, with an observer; no webhooks
\* ------------------------------------------------------------------------
InitSequential ==
    /\ ledger = << >>
    /\ users = {}
    /\ stripe_accounts = {}
    /\ intents = << >>
    /\ processed_events = [i \in Instances |-> {}]
    /\ category_cache = [i \in Instances |-> EmptyCache]
    /\ pc = [i \in Instances |-> "idle"]
    /\ loc = [i \in Instances |-> NoLocals]
    /\ resp = NoResponse

\* Baskets of a /spend body: empty, approved, denied, and partial with an
\* approved amount of two
SequentialBaskets ==
    {b \in SpendBaskets : \A k \in 1..Len(b) :
        b[k].upc = "" /\ (Len(b) = 2 => b[1].quantity = 2)}

NextSequential ==
    \E i \in OneProcess :
        \/ \E user \in UserIds, amount \in SpendAmounts, reason \in ApiReasons :
               earn_rewards(i, user, amount, reason)
        \/ \E user \in UserIds, amount \in SpendAmounts,
              items \in SequentialBaskets, accepts \in BOOLEAN :
               spend_rewards(i, user, amount, items, accepts)
        \/ spend_record(i)
        \/ \E user \in UserIds, amount \in SpendAmounts, reason \in ApiReasons :
               redeem_rewards(i, user, amount, reason)
        \/ redeem_record(i)

SpecSequential == InitSequential /\ [][NextSequential]_vars

\* The step answers process i's request with InvalidInput (400) and leaves
\* every table, the gateway, the classification cache and the set of
\* processed events as they were; the handler has no further step.
RejectedUntouched(i) ==
    /\ resp'.http = 400
    /\ resp'.status = "InvalidInput"
    /\ pc'[i] = "idle"
    /\ UNCHANGED <<ledger, users, stripe_accounts, intents, processed_events,
                   category_cache>>

\* C27: a POST /earn with a non-positive amount or a reason other than
\* "earn", a POST /redeem with a non-positive amount or a reason other than
\* "redeem", and a POST /spend with a non-positive amount or an empty item
\* list are answered InvalidInput with no ledger entry created and no other
\* state changed; for /spend the policy engine has cached no classification
\* and the gateway has been asked for no authorization.
C27_InvalidInputRejectedFirst ==
    [][\A i \in OneProcess, user \in UserIds, amount \in SpendAmounts :
          /\ \A reason \in ApiReasons :
                /\ ((amount <= 0 \/ reason # "earn")
                      /\ earn_rewards(i, user, amount, reason))
                   => RejectedUntouched(i)
                /\ ((amount <= 0 \/ reason # "redeem")
                      /\ redeem_rewards(i, user, amount, reason))
                   => RejectedUntouched(i)
          /\ \A items \in SequentialBaskets, accepts \in BOOLEAN :
                ((amount <= 0 \/ items = << >>)
                   /\ spend_rewards(i, user, amount, items, accepts))
                => RejectedUntouched(i)]_vars

\* A /spend with a positive amount the account's balance covers, rejected
\* for its empty item list after an earlier spend was authorized
C27_Witness ==
    /\ resp.op = "spend"
    /\ resp.status = "InvalidInput"
    /\ resp.amount > 0
    /\ get_user_balance(ledger, resp.user) >= resp.amount
    /\ Len(intents) = 1
    /\ \A i \in Instances : pc[i] = "idle"

\* C28: in every POST /spend whose authorization succeeds, the amount sent
\* to the gateway for authorization, which is the amount the recording step
\* then debits, is less than or equal to the amount the caller requested.
C28_NeverAboveRequested ==
    [][(FirstStep("spend") /\ resp'.status = "authorized")
         => /\ resp'.authorized_amount <= resp'.amount
            /\ intents'[resp'.payment_intent_id].amount <= resp'.amount
            /\ loc'[resp'.process].amount <= resp'.amount]_vars

\* C29: for every payment intent the gateway created, the ledger holds at
\* most one debit entry whose stripe_ref is the intent's identifier.
C29_OneDebitPerIntent ==
    \A k \in 1..Len(intents) :
        Cardinality({j \in 1..Len(ledger) :
                        /\ ledger[j].stripe_ref = <<"pi", k>>
                        /\ ledger[j].amount < 0}) <= 1

\* C30: when one process serves the /earn, /spend and /redeem requests one
\* after another and no webhook event is delivered, every account's balance
\* is non-negative after every request.
C30_SequentialBalanceNonNegative ==
    (\A i \in Instances : pc[i] = "idle")
    => \A u \in UserIds : calculate_balance_from_ledger(ledger, u) >= 0

\* C31: in every POST /spend whose authorization succeeds, the amount
\* authorized and then debited is no more than the approved amount the
\* policy engine returned for the basket, under an approve decision as well
\* as under a partial one.
C31_NeverAboveApproved ==
    [][(FirstStep("spend") /\ resp'.status = "authorized")
         => /\ resp'.authorized_amount <= resp'.approved_amount
            /\ loc'[resp'.process].amount <= resp'.approved_amount]_vars

\* C32: two evaluations of the same item list by check_transaction_eligibility
\* return the same decision, the same approved amount and the same per-item
\* categories and eligibility flags, whatever calls the classifier served
\* before or in between: every evaluation returns what the evaluation of
\* the same list by a classifier that has served no call yet returns.
C32_PureFunction ==
    resp.op = "check_transaction_eligibility"
    => /\ resp.processed_items
            = check_transaction_eligibility(EmptyCache,
                                            resp.items).processed_items
       /\ resp.decision
            = check_transaction_eligibility(EmptyCache, resp.items).decision
       /\ resp.approved_amount
            = check_transaction_eligibility(EmptyCache,
                                            resp.items).approved_amount

\* The item list in the order p
Permuted(items, p) == [k \in 1..Len(items) |-> items[p[k]]]

\* The per-item result list has one element per input item, in input
\* order: the k-th element is the Item built from the k-th dict.
InInputOrder(items, processed_items) ==
    /\ Len(processed_items) = Len(items)
    /\ \A k \in 1..Len(items) :
          /\ processed_items[k].upc = items[k].upc
          /\ processed_items[k].sku = items[k].sku
          /\ processed_items[k].price = items[k].price
          /\ processed_items[k].quantity = items[k].quantity
          /\ items[k].category # ""
               => processed_items[k].category = items[k].category
          /\ processed_items[k].is_eligible
               = is_eligible(processed_items[k].category)

\* C33: whatever the classifier has cached, check_transaction_eligibility
\* returns for an item list the decision and the approved amount that a
\* classifier which has served no call returns for every permutation of the
\* list, so that the evaluations of a list and of a permutation of it agree
\* whenever they are made; and the per-item result list has the length of
\* the input with its k-th element the result for the k-th input item.
C33_OrderIndependent ==
    resp.op = "check_transaction_eligibility"
    => /\ \A p \in Permutations(1..Len(resp.items)) :
             /\ resp.decision
                  = check_transaction_eligibility(
                        EmptyCache, Permuted(resp.items, p)).decision
             /\ resp.approved_amount
                  = check_transaction_eligibility(
                        EmptyCache, Permuted(resp.items, p)).approved_amount
       /\ InInputOrder(resp.items, resp.processed_items)

\* A basket of an item whose name is classified and cached under upc1 and an
\* eligible item was decided partial after the classifier had cached another
\* category for upc1; the basket in the other order gets the same outcome.
C33_Witness ==
    /\ resp.op = "check_transaction_eligibility"
    /\ Len(resp.items) = 2
    /\ resp.items[1].upc = "upc1"
    /\ resp.items[1].product_name # << >>
    /\ resp.items[2].category = "bread"
    /\ resp.decision = "partial"
    /\ resp.approved_amount = 2
    /\ resp.processed_items[1].category = "tobacco"
    /\ check_transaction_eligibility(EmptyCache,
                                     <<resp.items[2], resp.items[1]>>).decision
         = "partial"

\* C34: in every state of the classifier and for every raw item, the
\* category and the eligibility flag that check_transaction_eligibility
\* records for the item are the category classify_item returns for the
\* item's identifiers, name and declared category, and is_eligible of that
\* category.
C34_EngineFollowsClassifier ==
    \A i \in Instances, item_data \in PolicyItemPool :
        /\ Item(category_cache[i], item_data).item.category
             = classify_item(category_cache[i], item_data.upc, item_data.sku,
                             item_data.product_name, item_data.category).category
        /\ Item(category_cache[i], item_data).item.is_eligible
             = is_eligible(classify_item(category_cache[i], item_data.upc,
                                         item_data.sku, item_data.product_name,
                                         item_data.category).category)

\* C35: in every reachable state the classifier's cache holds only
\* categories of the deny-set, and every item that check_item_eligibility or
\* check_transaction_eligibility has evaluated is flagged eligible iff its
\* declared category is in the allow-set, whatever its identifier, its name
\* and the calls served before.
C35_EligibilityByDeclaredCategory ==
    /\ \A i \in Instances, identifier \in Identifiers :
          category_cache[i][identifier] # ""
            => category_cache[i][identifier] \in DISALLOWED_CATEGORIES
    /\ resp.op = "check_item_eligibility"
         => (resp.is_eligible <=> resp.declared \in ALLOWED_CATEGORIES)
    /\ resp.op = "check_transaction_eligibility"
         => /\ Len(resp.processed_items) = Len(resp.items)
            /\ \A k \in 1..Len(resp.items) :
                  resp.processed_items[k].is_eligible
                    <=> resp.items[k].category \in ALLOWED_CATEGORIES

\* An item declared dairy was found eligible in a call with an identifier
\* for which the classifier had cached a denied category.
C35_Witness ==
    /\ resp.op = "check_item_eligibility"
    /\ resp.declared = "dairy"
    /\ resp.upc = "" /\ resp.sku = "sku1"
    /\ resp.cache_before["sku1"] = "tobacco"
    /\ resp.product_name = <<"B","e","e","r">>
    /\ resp.is_eligible

\* C36: every ledger entry, whether an HTTP endpoint or the reconciler
\* created it, has an amount whose sign fits its reason: an earn entry is
\* strictly positive, a spend or redeem entry strictly negative, and no
\* entry carries another reason.
C36_SignFitsReason ==
    \A k \in 1..Len(ledger) :
        /\ ledger[k].reason \in {"earn", "spend", "redeem"}
        /\ ledger[k].reason = "earn" => ledger[k].amount > 0
        /\ ledger[k].reason \in {"spend", "redeem"} => ledger[k].amount < 0

\* The ledger holds a credit, a spend debit the reconciler wrote for a
\* settled payment intent, and a redeem debit.
C36_Witness ==
    /\ \E k \in 1..Len(ledger) : ledger[k].reason = "earn"
    /\ \E k \in 1..Len(ledger) :
          /\ ledger[k].reason = "spend"
          /\ ledger[k].metadata = "payment_intent.succeeded"
    /\ \E k \in 1..Len(ledger) : ledger[k].reason = "redeem"

\* C37: a step that appends an entry for one account, whichever endpoint
\* or event handler takes it, leaves the balance and the transaction
\* history of every other account as they were.
C37_AccountIsolation ==
    [][\A u \in UserIds :
          (/\ Len(ledger') = Len(ledger) + 1
           /\ ledger'[Len(ledger')].user_id # u)
          => /\ get_user_balance(ledger', u) = get_user_balance(ledger, u)
             /\ get_transaction_history(ledger', u, 100, 0)
                  = get_transaction_history(ledger, u, 100, 0)]_vars

\* Account 2 was credited; then account 1 was credited and debited by a
\* spend, and account 2 still holds its credit.
C37_Witness ==
    /\ Len(ledger) = 3
    /\ ledger[1].user_id = 2
    /\ ledger[2].user_id = 1
    /\ ledger[3].user_id = 1 /\ ledger[3].reason = "spend"
    /\ get_user_balance(ledger, 2) = ledger[1].amount
    /\ get_transaction_history(ledger, 2, 100, 0) = <<ledger[1]>>
    /\ get_user_balance(ledger, 1) = 0

====
